---- MODULE Spec2Model ----
(***************************************************************************)
(* Model of the ChatGo WebSocket hub (Hub.Run, SendToUser), the           *)
(* per-connection pumps (ReadPump, WritePump), the chat/typing handlers    *)
(* and the connection Handler.                                             *)
(***************************************************************************)
EXTENDS FiniteSets, Integers, Sequences, TLC

\* ------------------------------------------------------------------ bounds
MaxClients == 2      \* connections accepted in one run
MaxFrames == 2       \* inbound frames read in one run (all connections)
SendCap == 1         \* capacity of Client.send (256 in NewClient), scaled
BroadcastCap == 2    \* capacity of Hub.broadcast (256 in NewHub), scaled
MaxParticipantIDs == 2  \* length of participant_ids in a create request
MaxQueued == 2       \* frames waiting in Client.send when a writer run starts

\* ------------------------------------------------------- fixture data (db)
Users == {"A", "B", "C", "D"}
ConvIDs == {"c1", "c2"}
NoUser == "-"
NoClient == 0
ClientIDs == 1..MaxClients

\* rows of conversation_participants: c1 is a three-party conversation,
\* c2 a 1:1 conversation between two users that never connect
Participants(conv) == IF conv = "c1" THEN {"A", "B", "C"} ELSE {"C", "D"}

\* users that present a valid token to Handler in a run
Connecting == {"A", "B"}

\* values of the token query parameter: absent, failing ValidateToken, valid
Tokens == {"", "bad", "ok"}

VARIABLES
    clients,     \* Hub.clients: user id -> client (NoClient: no entry)
    broadcast,   \* Hub.broadcast: queue of OutgoingMessage
    nextClient,  \* number of Client values created by Handler
    userOf,      \* Client.UserID
    send,        \* Client.send: buffered frames
    closed,      \* Client.send has been closed (closeOnce done)
    conn,        \* Client.conn: "none", "open", "expired" (open, but
                 \* pongWait has passed without a pong), "closed"
    rpc,         \* position of Handler/ReadPump for the client
    wpc,         \* position of WritePump for the client
    pending,     \* SendToUser calls the reader still has to issue
    messages,    \* rows of the messages table, in insertion order
    registered,  \* clients in the order the Hub handled their register
    log,         \* lines logged: skipped unregister, full buffer (with the
                 \* dropped frame), rejected chat intent
    frames,      \* inbound frames read so far
    crashed,     \* the process panicked (send on a closed channel)
    responses,   \* HTTP error responses Handler wrote instead of upgrading
    closeFrames, \* WriteMessage(CloseMessage) calls of the client's writer
    closeCount,  \* executions of close(c.send)
    api          \* a POST /api/conversations request and what became of it

vars == <<clients, broadcast, nextClient, userOf, send, closed, conn, rpc,
          wpc, pending, messages, registered, log, frames, crashed,
          responses, closeFrames, closeCount, api>>

hubVars == <<clients, broadcast, send, closed, log, crashed>>

\* what only Handler, the writer's close frame and the conversation handler
\* touch
edgeVars == <<responses, closeFrames, api>>

\* ----------------------------------------------------------- db operations
IsUserInConversation(u, conv) == u \in Participants(conv)

\* GetUserConversations(u) yields one row (conv, OtherUserID) per other
\* participant; rows of one conversation come in no specified order, so the
\* first row matching conv may name any other participant.
OtherChoices(u, conv) ==
    IF u \in Participants(conv) /\ Participants(conv) \ {u} # {}
    THEN Participants(conv) \ {u}
    ELSE {NoUser}

CreateMessage(msgs, conv, u) ==
    [id |-> Len(msgs) + 1, conv |-> conv, sender |-> u]

\* ------------------------------------------------------------- client side
ChatMessage(saved) ==
    [type |-> "message", id |-> saved.id, conv |-> saved.conv,
     sender |-> saved.sender]

TypingMessage(u, conv) ==
    [type |-> "typing", id |-> 0, conv |-> conv, sender |-> u]

OutgoingMessage(to, data) == [RecipientID |-> to, Data |-> data]

\* participant check shared by both handlers: err != nil || !isParticipant
Authorized_ErrAndNotIn(u, conv, authErr) ==
    ~(authErr /\ ~IsUserInConversation(u, conv))

Authorized(u, conv, authErr) == ~authErr /\ IsUserInConversation(u, conv)

\* handleChatMessage up to the fan-out: the new messages table and the
\* event to fan out (none when rejected or when the insert failed)
handleChatMessage_IgnoreSaveErr(u, conv, msgs, authErr, saveErr) ==
    IF ~(~authErr /\ IsUserInConversation(u, conv))
    THEN [msgs |-> msgs, out |-> <<>>]
    ELSE LET saved == CreateMessage(msgs, conv, u)
         IN [msgs |-> IF saveErr THEN msgs ELSE Append(msgs, saved),
             out |-> <<ChatMessage(saved)>>]

handleChatMessage(u, conv, msgs, authErr, saveErr) ==
    IF ~Authorized(u, conv, authErr) THEN [msgs |-> msgs, out |-> <<>>]
    ELSE IF saveErr THEN [msgs |-> msgs, out |-> <<>>]
    ELSE LET saved == CreateMessage(msgs, conv, u)
         IN [msgs |-> Append(msgs, saved), out |-> <<ChatMessage(saved)>>]

handleTypingMessage(u, conv, authErr) ==
    IF ~Authorized(u, conv, authErr) THEN <<>>
    ELSE <<TypingMessage(u, conv)>>

\* sendToConversationParticipants: the SendToUser calls it issues, in order
sendToConversationParticipants(u, conv, message, listErr, other) ==
    IF listErr THEN <<>>
    ELSE (IF other = NoUser THEN <<>>
          ELSE <<OutgoingMessage(other, message)>>)
         \o <<OutgoingMessage(u, message)>>

\* Client.Close: closeOnce closes the send channel
Close(cl, c) == [cl EXCEPT ![c] = TRUE]

\* Client.Close: close(c.send) runs inside closeOnce.Do, so only the first
\* Close of a client executes it
CloseSend_NoOnce(cnt, cl, c) == [cnt EXCEPT ![c] = @ + 1]

CloseSend(cnt, cl, c) == IF cl[c] THEN cnt ELSE [cnt EXCEPT ![c] = @ + 1]

\* WritePump, !ok branch: one WriteMessage(CloseMessage) before returning
WriteCloseMessage_None(cf, c) == cf

WriteCloseMessage(cf, c) == [cf EXCEPT ![c] = @ + 1]

\* ReadPump: the read deadline is pongWait after the last pong (or after the
\* start of the pump); once it has passed every ReadMessage fails
DeadlineExpired_Never(c) == FALSE

DeadlineExpired(c) == conn[c] = "expired"

\* ------------------------------------------------------------- handler side
ValidateToken(tok) == tok = "ok"

\* Handler: token == "" and ValidateToken err both answer 401
TokenAccepted_SkipValidation(tok) == tok # ""

TokenAccepted(tok) == tok # "" /\ ValidateToken(tok)

\* what the request is answered with when no client is created: 401 from
\* Handler, or the error the upgrader writes when Upgrade fails
Refusal(tok, upErr) ==
    IF tok = "" THEN "Token required"
    ELSE IF ~ValidateToken(tok) THEN "Invalid token"
    ELSE "upgrade error"

\* ---------------------------------------------------------------- hub side
\* register case: the old client of the user is closed before the new one
\* is stored
RegisterClose_NoClose(u) == closed

RegisterClose(u) ==
    IF clients[u] # NoClient THEN Close(closed, clients[u]) ELSE closed

RegisterCloseSend(u) ==
    IF clients[u] # NoClient THEN CloseSend(closeCount, closed, clients[u])
    ELSE closeCount

\* stores the client registered first for the user instead of the new one
RegisterStore_Reuse(u, c) ==
    LET old == SelectSeq(registered, LAMBDA x : userOf[x] = u)
    IN [clients EXCEPT ![u] = IF old # <<>> THEN old[1] ELSE c]

RegisterStore_KeepOld(u, c) ==
    IF clients[u] # NoClient THEN clients ELSE [clients EXCEPT ![u] = c]

RegisterStore(u, c) == [clients EXCEPT ![u] = c]

\* unregister case: exists && existingClient == client
UnregisterMatches_Never(c) == FALSE

UnregisterMatches_AnyEntry(c) == clients[userOf[c]] # NoClient

UnregisterMatches(c) == clients[userOf[c]] = c

\* resolves the recipient to the session registered first for the user,
\* mapped or not
Recipient_FirstRegistered(m) ==
    LET old == SelectSeq(registered, LAMBDA x : userOf[x] = m.RecipientID)
    IN IF old # <<>> THEN old[1] ELSE NoClient

\* broadcast case: client, exists := h.clients[message.RecipientID]
Recipient_AnyMapped(m) ==
    IF clients[m.RecipientID] # NoClient THEN clients[m.RecipientID]
    ELSE IF \E u \in Users : clients[u] # NoClient
    THEN clients[CHOOSE u \in Users : clients[u] # NoClient]
    ELSE NoClient

Recipient(m) == clients[m.RecipientID]

\* sends whether or not the channel has room
TrySend_NoLimit(buf, data) == Append(buf, data)

\* broadcast case: select { case client.send <- data: default: }
TrySend_DropOldest(buf, data) ==
    IF Len(buf) < SendCap THEN Append(buf, data)
    ELSE Append(Tail(buf), data)

TrySend(buf, data) == IF Len(buf) < SendCap THEN Append(buf, data) ELSE buf

BufferFull(buf) == Len(buf) >= SendCap

\* Hub.IsUserOnline: a read of the map under the read lock
IsUserOnline(u) == clients[u] # NoClient

\* the select has a default branch, so the Hub never waits for room
CanDeliver_WaitForRoom(buf) == Len(buf) < SendCap

CanDeliver(buf) == TRUE

\* ------------------------------------------------- conversation handler
\* no request to the conversation handler
NoRequest == [phase |-> "none"]

\* the requests CreateConversationHandler may receive: the authenticated
\* user (NoUser: none in the context), whether the body parses, its
\* participant_ids, name and other_user_id, and whether the db call fails
Requests ==
    [phase : {"received"},
     user : Users \cup {NoUser},
     badJSON : BOOLEAN,
     ids : UNION {[1..n -> Users] : n \in 0..MaxParticipantIDs},
     name : {"", "team"},
     other : Users \cup {""},
     dbErr : BOOLEAN]

Range(f) == {f[i] : i \in DOMAIN f}

\* the slices a range over a map with these keys can build
Orderings(S) ==
    {f \in [1..Cardinality(S) -> S] : Range(f) = S}

\* participantSet and the participants slice built from it
ParticipantLists_NoSet(user, ids) == {<<user>> \o ids}

ParticipantLists(user, ids) == Orderings({user} \cup Range(ids))

\* GetOrCreateConversation inserts ($1, user), ($1, other): with other = user
\* the primary key of conversation_participants rejects the insert
CreateFails(req) ==
    req.dbErr \/ (req.ids = <<>> /\ req.other = req.user)

\* the outcomes of CreateConversationHandler for a request: the status it
\* answers with and the recipient list it hands to NotifyNewConversation
Outcomes(req) ==
    LET answer(st) == {[status |-> st, called |-> FALSE, notified |-> <<>>]}
    IN  IF req.user = NoUser THEN answer(401)
        ELSE IF req.badJSON THEN answer(400)
        ELSE IF Len(req.ids) > 0
        THEN IF req.name = "" THEN answer(400)
             ELSE UNION {IF Len(ps) < 2 THEN answer(400)
                         ELSE IF CreateFails(req) THEN answer(500)
                         ELSE {[status |-> 200, called |-> TRUE,
                                notified |-> ps]}
                         : ps \in ParticipantLists(req.user, req.ids)}
        ELSE IF req.other = "" THEN answer(400)
        ELSE IF CreateFails(req) THEN answer(500)
        ELSE {[status |-> 200, called |-> TRUE,
               notified |-> <<req.user, req.other>>]}

\* ----------------------------------------------------------------- initial
CoreInit ==
    /\ clients = [u \in Users |-> NoClient]
    /\ broadcast = <<>>
    /\ nextClient = 0
    /\ userOf = [c \in ClientIDs |-> NoUser]
    /\ send = [c \in ClientIDs |-> <<>>]
    /\ closed = [c \in ClientIDs |-> FALSE]
    /\ conn = [c \in ClientIDs |-> "none"]
    /\ rpc = [c \in ClientIDs |-> "none"]
    /\ wpc = [c \in ClientIDs |-> "none"]
    /\ pending = [c \in ClientIDs |-> <<>>]
    /\ messages = <<>>
    /\ registered = <<>>
    /\ log = {}
    /\ frames = 0
    /\ crashed = FALSE
    /\ responses = <<>>
    /\ closeFrames = [c \in ClientIDs |-> 0]
    /\ closeCount = [c \in ClientIDs |-> 0]

Init == CoreInit /\ api = NoRequest

\* ----------------------------------------------------------------- actions
Handler_PumpsFirst(u, tok, upErr) ==
    /\ ~crashed
    /\ nextClient + Len(responses) < MaxClients
    /\ IF ~TokenAccepted(tok) \/ upErr
       THEN /\ responses' = Append(responses, Refusal(tok, upErr))
            /\ UNCHANGED <<nextClient, userOf, conn, rpc, wpc>>
       ELSE LET c == nextClient + 1 IN
            /\ nextClient' = c
            /\ userOf' = [userOf EXCEPT ![c] = u]
            /\ conn' = [conn EXCEPT ![c] = "open"]
            /\ rpc' = [rpc EXCEPT ![c] = "read"]
            /\ wpc' = [wpc EXCEPT ![c] = "run"]
            /\ responses' = responses
    /\ UNCHANGED <<hubVars, pending, messages, registered, frames,
                   closeFrames, closeCount, api>>

\* Handler: a request without a valid token is answered 401 and one whose
\* upgrade fails is answered by the upgrader, and nothing is created;
\* otherwise NewClient builds the client and the handler blocks on
\* hub.register <- client
Handler(u, tok, upErr) ==
    /\ ~crashed
    /\ nextClient + Len(responses) < MaxClients
    /\ IF ~TokenAccepted(tok) \/ upErr
       THEN /\ responses' = Append(responses, Refusal(tok, upErr))
            /\ UNCHANGED <<nextClient, userOf, conn, rpc>>
       ELSE LET c == nextClient + 1 IN
            /\ nextClient' = c
            /\ userOf' = [userOf EXCEPT ![c] = u]
            /\ conn' = [conn EXCEPT ![c] = "open"]
            /\ rpc' = [rpc EXCEPT ![c] = "register"]
            /\ responses' = responses
    /\ UNCHANGED <<hubVars, wpc, pending, messages, registered, frames,
                   closeFrames, closeCount, api>>

\* Hub.Run, case client := <-h.register; the handler then starts the pumps
HubRegister(c) ==
    /\ ~crashed
    /\ rpc[c] = "register"
    /\ closed' = RegisterClose(userOf[c])
    /\ closeCount' = RegisterCloseSend(userOf[c])
    /\ clients' = RegisterStore(userOf[c], c)
    /\ registered' = Append(registered, c)
    /\ rpc' = [rpc EXCEPT ![c] = "read"]
    /\ wpc' = [wpc EXCEPT ![c] = "run"]
    /\ UNCHANGED <<broadcast, send, log, crashed, nextClient, userOf, conn,
                   pending, messages, frames, edgeVars>>

\* Hub.Run, case client := <-h.unregister; the reader's deferred function
\* then closes the connection
HubUnregister(c) ==
    /\ ~crashed
    /\ rpc[c] = "unregister"
    /\ IF UnregisterMatches(c)
       THEN /\ clients' = [clients EXCEPT ![userOf[c]] = NoClient]
            /\ closed' = Close(closed, c)
            /\ closeCount' = CloseSend(closeCount, closed, c)
            /\ log' = log
       ELSE /\ log' = log \cup {[ev |-> "skip", c |-> c]}
            /\ UNCHANGED <<clients, closed, closeCount>>
    /\ rpc' = [rpc EXCEPT ![c] = "done"]
    /\ conn' = [conn EXCEPT ![c] = "closed"]
    /\ UNCHANGED <<broadcast, send, crashed, nextClient, userOf, wpc, pending,
                   messages, registered, frames, edgeVars>>

\* Hub.Run, case message := <-h.broadcast
HubBroadcast ==
    /\ ~crashed
    /\ broadcast # <<>>
    /\ LET m == Head(broadcast)
           c == Recipient(m)
       IN /\ broadcast' = Tail(broadcast)
          /\ IF c = NoClient
             THEN UNCHANGED <<send, log, crashed>>
             ELSE IF closed[c]
             THEN crashed' = TRUE /\ UNCHANGED <<send, log>>
             ELSE /\ CanDeliver(send[c])
                  /\ send' = [send EXCEPT ![c] = TrySend(send[c], m.Data)]
                  /\ log' = IF BufferFull(send[c])
                               THEN log \cup {[ev |-> "full", c |-> c,
                                               data |-> m.Data]}
                               ELSE log
                  /\ crashed' = crashed
    /\ UNCHANGED <<clients, closed, nextClient, userOf, conn, rpc, wpc,
                   pending, messages, registered, frames, edgeVars,
                   closeCount>>

SendToUser_Jump(c) ==
    /\ ~crashed
    /\ rpc[c] = "send"
    /\ Len(broadcast) < BroadcastCap
    /\ broadcast' = <<Head(pending[c])>> \o broadcast
    /\ pending' = [pending EXCEPT ![c] = Tail(pending[c])]
    /\ rpc' = [rpc EXCEPT ![c] = IF Tail(pending[c]) = <<>> THEN "read"
                                 ELSE "send"]
    /\ UNCHANGED <<clients, send, closed, log, crashed, nextClient, userOf,
                   conn, wpc, messages, registered, frames, edgeVars,
                   closeCount>>

SendToUser_Direct(c) ==
    /\ ~crashed
    /\ rpc[c] = "send"
    /\ LET m == Head(pending[c])
           r == clients[m.RecipientID]
       IN send' = IF r = NoClient THEN send
                  ELSE [send EXCEPT ![r] = TrySend(send[r], m.Data)]
    /\ pending' = [pending EXCEPT ![c] = Tail(pending[c])]
    /\ rpc' = [rpc EXCEPT ![c] = IF Tail(pending[c]) = <<>> THEN "read"
                                 ELSE "send"]
    /\ UNCHANGED <<clients, broadcast, closed, log, crashed, nextClient,
                   userOf, conn, wpc, messages, registered, frames, edgeVars,
                   closeCount>>

\* Hub.SendToUser: h.broadcast <- &OutgoingMessage{...}, blocking while the
\* channel is full (json.Marshal cannot fail on ChatMessage/TypingMessage)
SendToUser(c) ==
    /\ ~crashed
    /\ rpc[c] = "send"
    /\ Len(broadcast) < BroadcastCap
    /\ broadcast' = Append(broadcast, Head(pending[c]))
    /\ pending' = [pending EXCEPT ![c] = Tail(pending[c])]
    /\ rpc' = [rpc EXCEPT ![c] = IF Tail(pending[c]) = <<>> THEN "read"
                                 ELSE "send"]
    /\ UNCHANGED <<clients, send, closed, log, crashed, nextClient, userOf,
                   conn, wpc, messages, registered, frames, edgeVars,
                   closeCount>>

ReaderCanRead(c) ==
    /\ ~crashed
    /\ rpc[c] = "read"
    /\ conn[c] \in {"open", "expired"}
    /\ ~DeadlineExpired(c)
    /\ frames < MaxFrames

StartFanOut(c, outs) ==
    /\ pending' = [pending EXCEPT ![c] = outs]
    /\ rpc' = [rpc EXCEPT ![c] = IF outs = <<>> THEN "read" ELSE "send"]
    /\ frames' = frames + 1
    /\ UNCHANGED <<clients, broadcast, send, closed, crashed, nextClient,
                   userOf, conn, wpc, registered, edgeVars, closeCount>>

\* ReadPump, case "message": handleChatMessage up to its first SendToUser
ReadChat(c, conv, authErr, saveErr, listErr, other) ==
    /\ ReaderCanRead(c)
    /\ other \in OtherChoices(userOf[c], conv)
    /\ LET r == handleChatMessage(userOf[c], conv, messages, authErr, saveErr)
           outs == IF r.out = <<>> THEN <<>>
                   ELSE sendToConversationParticipants(userOf[c], conv,
                                                       r.out[1], listErr, other)
       IN /\ messages' = r.msgs
          /\ log' = IF ~Authorized(userOf[c], conv, authErr)
                    THEN log \cup {[ev |-> "notin", c |-> c, conv |-> conv]}
                    ELSE IF saveErr
                    THEN log \cup {[ev |-> "savefail", c |-> c]}
                    ELSE log
          /\ StartFanOut(c, outs)

\* ReadPump, case "typing": handleTypingMessage up to its first SendToUser
ReadTyping(c, conv, authErr, listErr, other) ==
    /\ ReaderCanRead(c)
    /\ other \in OtherChoices(userOf[c], conv)
    /\ LET t == handleTypingMessage(userOf[c], conv, authErr)
           outs == IF t = <<>> THEN <<>>
                   ELSE sendToConversationParticipants(userOf[c], conv,
                                                       t[1], listErr, other)
       IN /\ UNCHANGED <<messages, log>>
          /\ StartFanOut(c, outs)

\* ReadPump: json.Unmarshal fails ("Invalid message format", continue), or
\* msg.Type is neither message nor typing ("Unknown message type")
ReadSkip_Fatal(c, kind) ==
    /\ ReaderCanRead(c)
    /\ log' = log \cup {[ev |-> kind, c |-> c]}
    /\ rpc' = [rpc EXCEPT ![c] = "unregister"]
    /\ frames' = frames + 1
    /\ UNCHANGED <<clients, broadcast, send, closed, crashed, nextClient,
                   userOf, conn, wpc, registered, edgeVars, closeCount,
                   pending, messages>>

ReadSkip(c, kind) ==
    /\ ReaderCanRead(c)
    /\ log' = log \cup {[ev |-> kind, c |-> c]}
    /\ messages' = messages
    /\ StartFanOut(c, <<>>)

\* ReadPump: ReadMessage fails (peer close, read deadline, closed conn); the
\* deferred function blocks on hub.unregister <- c
ReadErr(c) ==
    /\ ~crashed
    /\ rpc[c] = "read"
    /\ rpc' = [rpc EXCEPT ![c] = "unregister"]
    /\ UNCHANGED <<hubVars, nextClient, userOf, conn, wpc, pending, messages,
                   registered, frames, edgeVars, closeCount>>

\* the peer stops answering pings: pongWait passes without the pong handler
\* moving the read deadline
PongWaitElapsed(c) ==
    /\ ~crashed
    /\ conn[c] = "open"
    /\ rpc[c] \in {"read", "send"}
    /\ wpc[c] = "run"
    /\ conn' = [conn EXCEPT ![c] = "expired"]
    /\ UNCHANGED <<hubVars, nextClient, userOf, rpc, wpc, pending, messages,
                   registered, frames, edgeVars, closeCount>>

WriterExit(c) ==
    /\ wpc' = [wpc EXCEPT ![c] = "done"]
    /\ conn' = [conn EXCEPT ![c] = "closed"]

\* WritePump, case message, ok := <-c.send with ok: write a text frame
WriterWrite(c, ok) ==
    /\ ~crashed
    /\ wpc[c] = "run"
    /\ send[c] # <<>>
    /\ ok => conn[c] # "closed"
    /\ send' = [send EXCEPT ![c] = Tail(send[c])]
    /\ IF ok THEN UNCHANGED <<wpc, conn>> ELSE WriterExit(c)
    /\ UNCHANGED <<clients, broadcast, closed, log, crashed, nextClient,
                   userOf, rpc, pending, messages, registered, frames,
                   edgeVars, closeCount>>

\* writes the close frame as soon as the send channel is closed, queued
\* frames or not
WriterCloseFrame_Eager(c) ==
    /\ ~crashed
    /\ wpc[c] = "run"
    /\ closed[c]
    /\ closeFrames' = WriteCloseMessage(closeFrames, c)
    /\ WriterExit(c)
    /\ UNCHANGED <<hubVars, nextClient, userOf, rpc, pending, messages,
                   registered, frames, responses, closeCount, api>>

\* WritePump, case message, ok := <-c.send with !ok: close frame, return
WriterCloseFrame(c) ==
    /\ ~crashed
    /\ wpc[c] = "run"
    /\ send[c] = <<>>
    /\ closed[c]
    /\ closeFrames' = WriteCloseMessage(closeFrames, c)
    /\ WriterExit(c)
    /\ UNCHANGED <<hubVars, nextClient, userOf, rpc, pending, messages,
                   registered, frames, responses, closeCount, api>>

\* WritePump, case <-ticker.C: the ping write fails, return (a ping that is
\* written changes no state)
WriterPingFail(c) ==
    /\ ~crashed
    /\ wpc[c] = "run"
    /\ WriterExit(c)
    /\ UNCHANGED <<hubVars, nextClient, userOf, rpc, pending, messages,
                   registered, frames, edgeVars, closeCount>>

\* ReadPump: ReadMessage returns a frame, which is handled up to its first
\* SendToUser call
ReadStep ==
    \/ \E c \in ClientIDs, conv \in ConvIDs, authErr, saveErr, listErr \in BOOLEAN,
          other \in Users \cup {NoUser} :
            ReadChat(c, conv, authErr, saveErr, listErr, other)
    \/ \E c \in ClientIDs, conv \in ConvIDs, authErr, listErr \in BOOLEAN,
          other \in Users \cup {NoUser} :
            ReadTyping(c, conv, authErr, listErr, other)
    \/ \E c \in ClientIDs, kind \in {"invalid", "unknown"} : ReadSkip(c, kind)

\* every other step: Handler, the Hub's cases, a SendToUser call, a failed
\* read, an expired deadline, the writer
OtherStep ==
    \/ \E u \in Connecting, tok \in Tokens, upErr \in BOOLEAN :
          Handler(u, tok, upErr)
    \/ \E c \in ClientIDs : HubRegister(c)
    \/ \E c \in ClientIDs : HubUnregister(c)
    \/ HubBroadcast
    \/ \E c \in ClientIDs : SendToUser(c)
    \/ \E c \in ClientIDs : ReadErr(c)
    \/ \E c \in ClientIDs : PongWaitElapsed(c)
    \/ \E c \in ClientIDs, ok \in BOOLEAN : WriterWrite(c, ok)
    \/ \E c \in ClientIDs : WriterCloseFrame(c)
    \/ \E c \in ClientIDs : WriterPingFail(c)

Next == ReadStep \/ OtherStep

\* no step the program can take from the current state breaks the step
\* formula A; a frame is read only by a reader for which ReaderCanRead holds
EveryStep(A) ==
    /\ ~ENABLED (OtherStep /\ ~A)
    /\ (\E c \in ClientIDs : ReaderCanRead(c)) => ~ENABLED (ReadStep /\ ~A)

Spec == Init /\ [][Next]_vars

\* CreateConversationHandler, applied to one request
CreateConversationHandler ==
    /\ api.phase = "received"
    /\ \E o \in Outcomes(api) :
           api' = [phase |-> "done", req |-> api, status |-> o.status,
                   called |-> o.called, notified |-> o.notified]
    /\ UNCHANGED <<hubVars, nextClient, userOf, conn, rpc, wpc, pending,
                   messages, registered, frames, responses, closeFrames,
                   closeCount>>

ConvInit == CoreInit /\ api \in Requests

ConvNext == CreateConversationHandler

\* the conversation handler on every request of the bounded set
ConvSpec == ConvInit /\ [][ConvNext]_vars

\* ------------------------------------------------------------ writer runs
\* the first k rows of the messages table when A's session sent k chat
\* frames to c1
SentByA(k) == [i \in 1..k |-> [id |-> i, conv |-> "c1", sender |-> "A"]]

\* A's session is registered and has read k chat frames; its own copies were
\* all delivered and its writer has not yet run, so Client.send holds the k
\* frames in the order the Hub sent them. The channel has room for 256
\* frames (NewClient); SendCap scales what the Hub adds in a run, MaxQueued
\* what is already waiting when the run starts
WriteInit ==
    \E k \in 0..MaxQueued :
        /\ clients = [u \in Users |-> IF u = "A" THEN 1 ELSE NoClient]
        /\ broadcast = <<>>
        /\ nextClient = 1
        /\ userOf = [c \in ClientIDs |-> IF c = 1 THEN "A" ELSE NoUser]
        /\ send = [c \in ClientIDs |->
                     IF c = 1 THEN [i \in 1..k |-> ChatMessage(SentByA(k)[i])]
                     ELSE <<>>]
        /\ closed = [c \in ClientIDs |-> FALSE]
        /\ conn = [c \in ClientIDs |-> IF c = 1 THEN "open" ELSE "none"]
        /\ rpc = [c \in ClientIDs |-> IF c = 1 THEN "read" ELSE "none"]
        /\ wpc = [c \in ClientIDs |-> IF c = 1 THEN "run" ELSE "none"]
        /\ pending = [c \in ClientIDs |-> <<>>]
        /\ messages = SentByA(k)
        /\ registered = <<1>>
        /\ log = {}
        /\ frames = k
        /\ crashed = FALSE
        /\ responses = <<>>
        /\ closeFrames = [c \in ClientIDs |-> 0]
        /\ closeCount = [c \in ClientIDs |-> 0]
        /\ api = NoRequest

\* the program from a state with frames waiting for the writer
WriteSpec == WriteInit /\ [][Next]_vars

\* a step some goroutine can take without waiting for the peer: the Hub takes
\* whatever its channels offer, a reader goes on with the SendToUser calls of
\* its frame or sees a ReadMessage that must fail (closed connection, expired
\* read deadline), a writer takes what its send channel offers (a frame or
\* the close)
HubStep ==
    \/ \E c \in ClientIDs : HubRegister(c)
    \/ \E c \in ClientIDs : HubUnregister(c)
    \/ HubBroadcast

ReaderStep(c) ==
    \/ SendToUser(c)
    \/ (conn[c] = "closed" \/ DeadlineExpired(c)) /\ ReadErr(c)

WriterStep(c) ==
    \/ \E ok \in BOOLEAN : WriterWrite(c, ok)
    \/ WriterCloseFrame(c)

Runnable == HubStep \/ \E c \in ClientIDs : ReaderStep(c) \/ WriterStep(c)

\* the Go scheduler does not leave runnable goroutines waiting forever
FairSpec == Spec /\ WF_vars(Runnable)

TypeOK ==
    /\ clients \in [Users -> ClientIDs \cup {NoClient}]
    /\ nextClient \in 0..MaxClients
    /\ frames \in 0..MaxFrames
    /\ \A c \in ClientIDs : Len(send[c]) <= SendCap
    /\ Len(broadcast) <= BroadcastCap
    /\ conn \in [ClientIDs -> {"none", "open", "expired", "closed"}]
    /\ nextClient + Len(responses) <= MaxClients
    /\ closeFrames \in [ClientIDs -> 0..1]
    /\ closeCount \in [ClientIDs -> 0..1]

\* ================================================================== claims
\* sessions the Hub has registered for user u, in registration order
RegisteredFor(u) == SelectSeq(registered, LAMBDA c : userOf[c] = u)

\* a session the Hub registered and that is no longer the mapped one
Stale(a) ==
    /\ \E i \in 1..Len(registered) : registered[i] = a
    /\ clients[userOf[a]] # a

\* C1: every user maps to at most one session, the mapped session is the
\* one registered last for that user, and every other session ever
\* registered for the user has a closed send channel.
C1_SingleSession ==
    \A u \in Users :
        LET regs == RegisteredFor(u) IN
        /\ Cardinality({c \in ClientIDs : userOf[c] = u /\ clients[u] = c}) <= 1
        /\ clients[u] # NoClient =>
               /\ regs # <<>>
               /\ clients[u] = regs[Len(regs)]
        /\ \A i \in 1..Len(regs) : regs[i] # clients[u] => closed[regs[i]]

C1_Witness ==
    \E u \in Users :
        /\ Len(RegisteredFor(u)) >= 2
        /\ clients[u] = RegisteredFor(u)[Len(RegisteredFor(u))]
        /\ closed[RegisteredFor(u)[1]]

\* C2: when the Hub handles the unregister of a session A that has been
\* replaced by a session B, the entry of the user is still B, B's send
\* channel is still open and the rest of the Hub state is unchanged.
C2_StaleUnregisterNoOp ==
    EveryStep(
       \A a \in ClientIDs :
          (/\ rpc[a] = "unregister"
           /\ rpc'[a] = "done"
           /\ clients[userOf[a]] # NoClient
           /\ clients[userOf[a]] # a)
          => /\ clients' = clients
             /\ ~closed'[clients'[userOf[a]]]
             /\ closed' = closed
             /\ send' = send
             /\ broadcast' = broadcast
             /\ crashed' = crashed)

C2_Witness ==
    \E a, b \in ClientIDs :
        /\ a # b
        /\ [ev |-> "skip", c |-> a] \in log
        /\ rpc[a] = "done"
        /\ clients[userOf[a]] = b
        /\ ~closed[b]

\* C3: whenever a session has been replaced in the map its send channel is
\* already closed, and no step ever adds a frame to the send channel of a
\* session that is no longer the mapped one.
C3_SupersededClosed ==
    \A a \in ClientIDs : Stale(a) => closed[a]

C3_NoEnqueueOnStale ==
    EveryStep(
       \A a \in ClientIDs : Stale(a) => Len(send'[a]) <= Len(send[a]))

\* C3: a replaced session is closed in every state and is never enqueued to.
C3_Supersession == C3_SupersededClosed /\ C3_NoEnqueueOnStale

C3_Witness ==
    \E a, b \in ClientIDs :
        /\ a # b
        /\ userOf[a] = userOf[b]
        /\ Stale(a)
        /\ closed[a]
        /\ clients[userOf[b]] = b
        /\ send[b] # <<>>
        /\ send[a] = <<>>
        /\ wpc[a] = "run"

\* the Hub takes the next OutgoingMessage off its queue in this step
HubTakes ==
    /\ broadcast # <<>>
    /\ broadcast' = Tail(broadcast)

\* the send channel of the session mapped for u is full
RecipientFull(u) == clients[u] # NoClient /\ BufferFull(send[clients[u]])

\* C4: a reader that calls SendToUser for a recipient whose send channel is
\* full is never made to wait, whatever the state of the Hub's own queue.
C4_SendToUserNeverBlocks ==
    \A c \in ClientIDs :
        (/\ rpc[c] = "send"
         /\ ~crashed
         /\ RecipientFull(Head(pending[c]).RecipientID))
        => ENABLED SendToUser(c)

\* C5: the Hub never waits on a full send channel: with a message at the
\* head of its queue it can always take its step, and a message for a mapped
\* session with room is enqueued even while other sessions' channels are full.
C5_HubNeverWaits ==
    (broadcast # <<>> /\ ~crashed) => ENABLED HubBroadcast

C5_RoomMeansDelivered ==
    EveryStep(
       HubTakes =>
          LET m == Head(broadcast)
              c == clients[m.RecipientID]
          IN (c # NoClient /\ ~BufferFull(send[c]))
             => send'[c] = Append(send[c], m.Data))

\* C5: a full send channel neither stops the Hub nor costs another recipient
\* its frame.
C5_FullBufferDoesNotBlockOthers == C5_HubNeverWaits /\ C5_RoomMeansDelivered

\* the frame dropped for r1 reached r2, the next recipient of the fan-out
C5_Witness ==
    \E r1, r2 \in ClientIDs : \E e \in log :
        /\ r1 # r2
        /\ e.ev = "full"
        /\ e.c = r1
        /\ BufferFull(send[r1])
        /\ \A i \in 1..Len(send[r1]) : send[r1][i] # e.data
        /\ \E i \in 1..Len(send[r2]) : send[r2][i] = e.data

\* C6: a message for a mapped session whose send channel is full is
\* discarded: the channel keeps its frames in their order, the session stays
\* mapped and open, and the Hub has finished the command.
C6_DropNewest ==
    EveryStep(
       HubTakes =>
          LET m == Head(broadcast)
              c == clients[m.RecipientID]
          IN (c # NoClient /\ BufferFull(send[c]))
             => /\ send' = send
                /\ clients' = clients
                /\ closed' = closed
                /\ ~crashed'
                /\ [ev |-> "full", c |-> c, data |-> m.Data] \in log')

C6_Witness ==
    \E e \in log :
        /\ e.ev = "full"
        /\ clients[userOf[e.c]] = e.c
        /\ ~closed[e.c]
        /\ Len(send[e.c]) = SendCap
        /\ \A i \in 1..Len(send[e.c]) : send[e.c][i] # e.data

\* the recipients named by a sequence of SendToUser calls
RecipientsOf(outs) == {outs[i].RecipientID : i \in 1..Len(outs)}

\* a row was inserted into the messages table in this step
Persisted == Len(messages') = Len(messages) + 1

\* C7: a chat message that passed the participant check and was persisted
\* is dispatched to every participant of its conversation, once each, and
\* to no one else.
C7_FanOutComplete ==
    [][Persisted =>
          LET saved == messages'[Len(messages')] IN
          \E c \in ClientIDs :
              /\ rpc[c] = "read"
              /\ userOf[c] = saved.sender
              /\ RecipientsOf(pending'[c]) = Participants(saved.conv)
              /\ Len(pending'[c]) = Cardinality(Participants(saved.conv))
              /\ \A i \in 1..Len(pending'[c]) :
                     pending'[c][i].Data = ChatMessage(saved)]_vars

\* C8: no typing frame is ever enqueued on the send channel of the session
\* of the user it originates from.
C8_TypingNotEchoed ==
    \A c \in ClientIDs : \A i \in 1..Len(send[c]) :
        send[c][i].type = "typing" => send[c][i].sender # userOf[c]

\* every frame that is on its way to a client or buffered for one
InFlight ==
    UNION {{pending[c][i].Data : i \in 1..Len(pending[c])} : c \in ClientIDs}
    \cup {broadcast[i].Data : i \in 1..Len(broadcast)}
    \cup UNION {{send[c][i] : i \in 1..Len(send[c])} : c \in ClientIDs}

\* C9: a chat message is issued to SendToUser only after CreateMessage has
\* returned its row: every chat frame queued for dispatch, in the Hub's
\* queue or in a send channel is the frame of a row of the messages table.
C9_PersistBeforeDispatch ==
    \A e \in InFlight :
        e.type = "message" =>
            /\ e.id \in 1..Len(messages)
            /\ e = ChatMessage(messages[e.id])

C9_Witness ==
    \E c \in ClientIDs : \E i \in 1..Len(send[c]) :
        /\ send[c][i].type = "message"
        /\ send[c][i].id \in 1..Len(messages)

\* the participant check of the handlers turns the intent down
Rejected(c, conv, authErr) == authErr \/ userOf[c] \notin Participants(conv)

\* C10: a chat or typing intent whose sender is not a participant of the
\* conversation, or whose participant check fails, persists nothing, issues
\* no SendToUser call, puts no frame on any send channel and leaves the
\* sender's session registered and its pumps running.
C10_AuthorizationGate ==
    EveryStep(
       \A c \in ClientIDs, conv \in ConvIDs, authErr \in BOOLEAN :
          (/\ frames' = frames + 1
           /\ Rejected(c, conv, authErr)
           /\ \E saveErr, listErr \in BOOLEAN, other \in Users \cup {NoUser} :
                  \/ ReadChat(c, conv, authErr, saveErr, listErr, other)
                  \/ ReadTyping(c, conv, authErr, listErr, other))
          => UNCHANGED <<messages, pending, broadcast, send, clients, closed,
                         conn, rpc, wpc, crashed>>)

C10_Witness ==
    \E c \in ClientIDs, conv \in ConvIDs :
        /\ [ev |-> "notin", c |-> c, conv |-> conv] \in log
        /\ userOf[c] \notin Participants(conv)
        /\ clients[userOf[c]] = c
        /\ rpc[c] = "read"
        /\ messages = <<>>
        /\ broadcast = <<>>
        /\ \A d \in ClientIDs : pending[d] = <<>> /\ send[d] = <<>>

\* the number of SendToUser calls in outs that carry data to user u
Dispatches(outs, u, data) ==
    Cardinality({i \in 1..Len(outs) : outs[i] = OutgoingMessage(u, data)})

\* C11: when the session of the sender and the session of another
\* participant of the conversation are both mapped, with room in their send
\* channels, a chat message of the sender is persisted once and the fan-out
\* it starts dispatches the frame of the saved row exactly once to the sender
\* and exactly once to the other participant.
C11_EndToEndDelivery ==
    [][Persisted =>
          LET saved == messages'[Len(messages')] IN
          \A c \in ClientIDs, u2 \in Participants(saved.conv) \ {saved.sender} :
              (/\ rpc[c] = "read"
               /\ clients[saved.sender] = c
               /\ pending'[c] # <<>>
               /\ clients[u2] # NoClient
               /\ ~RecipientFull(saved.sender)
               /\ ~RecipientFull(u2))
              => /\ messages' = Append(messages, saved)
                 /\ Dispatches(pending'[c], saved.sender, ChatMessage(saved)) = 1
                 /\ Dispatches(pending'[c], u2, ChatMessage(saved)) = 1]_vars

\* C12: when the Hub takes a message whose recipient has no entry in the
\* map, the map, every send channel and the log stay as they are, the process
\* goes on, and the message is gone from the Hub's queue without being kept
\* anywhere; a session registered later starts with the send channel it had.
C12_OfflineDropped ==
    EveryStep(
       HubTakes =>
          LET m == Head(broadcast) IN
          clients[m.RecipientID] = NoClient
          => /\ UNCHANGED <<clients, send, closed, log, pending, rpc, wpc>>
             /\ ~crashed')

C12_NothingHeldForRegister ==
    EveryStep(
       \A c \in ClientIDs :
          (rpc[c] = "register" /\ rpc'[c] # "register")
          => send'[c] = <<>> /\ broadcast' = broadcast)

\* C12: a dispatch to a user without a session is dropped without a trace
C12_OfflineDispatchNoOp == C12_OfflineDropped /\ C12_NothingHeldForRegister

\* one connection ever, of A; A's chat message was fanned out to an absent
\* participant and then to A, and the Hub has handled both dispatches
C12_Witness ==
    /\ nextClient = 1
    /\ userOf[1] = "A"
    /\ clients["A"] = 1
    /\ Len(messages) = 1
    /\ pending[1] = <<>>
    /\ broadcast = <<>>
    /\ send[1] = <<ChatMessage(messages[1])>>
    /\ \A u \in Users \ {"A"} : clients[u] = NoClient

\* the reader of c has left its loop
ReaderExited(c) == rpc[c] \in {"unregister", "done"}

\* C13: a reader that leaves its loop submits the unregister of its own
\* session; when the Hub has handled it the connection is closed, and if the
\* session was the mapped one the user has no entry and the send channel is
\* closed.
C13_ExitSubmitsUnregister ==
    EveryStep(
       \A c \in ClientIDs :
          (rpc[c] \in {"read", "send"} /\ rpc'[c] \notin {"read", "send"})
          => rpc'[c] = "unregister")

C13_UnregisterHandled ==
    EveryStep(
       \A c \in ClientIDs :
          (rpc[c] = "unregister" /\ rpc'[c] # "unregister")
          => /\ rpc'[c] = "done"
             /\ conn'[c] = "closed"
             /\ clients[userOf[c]] = c
                => /\ clients'[userOf[c]] = NoClient
                   /\ closed'[c])

C13_AfterTeardown ==
    \A c \in ClientIDs :
        rpc[c] = "done" => conn[c] = "closed" /\ clients[userOf[c]] # c

\* C13: a reader's exit leads to its unregister, a closed connection and, for
\* the mapped session, a removed entry and a closed send channel.
C13_ReaderExitTeardown ==
    /\ C13_AfterTeardown
    /\ C13_ExitSubmitsUnregister
    /\ C13_UnregisterHandled

\* the mapped session's reader left and the Hub removed and closed it
C13_Witness ==
    \E c \in ClientIDs :
        /\ rpc[c] = "done"
        /\ Len(registered) = 1
        /\ registered[1] = c
        /\ clients[userOf[c]] = NoClient
        /\ closed[c]
        /\ conn[c] = "closed"

\* the closure of session c has been triggered: its reader has left its loop
\* (peer close, read failure), its writer has returned (write failure), its
\* read deadline has expired, or its send channel was closed (supersession)
Closing(c) ==
    \/ ReaderExited(c)
    \/ wpc[c] = "done"
    \/ conn[c] \in {"expired", "closed"}
    \/ closed[c]

\* both pumps of c have returned and its connection is closed
Closed(c) == rpc[c] = "done" /\ wpc[c] = "done" /\ conn[c] = "closed"

\* C14: once the closure of a session is triggered, its reader and its
\* writer both return and its connection is closed.
C14_ClosureTerminates == \A c \in ClientIDs : Closing(c) ~> Closed(c)

\* a superseded session whose writer sent the close frame and whose reader
\* then left through a skipped unregister
C14_Witness ==
    \E c \in ClientIDs :
        /\ Closed(c)
        /\ closeFrames[c] = 1
        /\ [ev |-> "skip", c |-> c] \in log

\* C15: the send channel of a session is closed at most once, however
\* supersession and the session's own unregister interleave, and a Close of
\* a session that is closed already changes nothing.
C15_CloseIdempotent ==
    \A c \in ClientIDs :
        /\ closeCount[c] <= 1
        /\ closed[c] <=> closeCount[c] = 1
        /\ closed[c] =>
               /\ Close(closed, c) = closed
               /\ CloseSend(closeCount, closed, c) = closeCount

\* a session closed by supersession whose own unregister the Hub has handled
C15_Witness ==
    \E c \in ClientIDs :
        /\ Stale(c)
        /\ rpc[c] = "done"
        /\ [ev |-> "skip", c |-> c] \in log
        /\ closed[c]
        /\ closeCount[c] = 1

\* C16: a writer that finds its send channel closed writes one close frame
\* and returns; a writer whose data write or ping fails returns without a
\* close frame; a writer that has returned takes no more frames and writes
\* nothing; none of these steps stops the process.
C16_CloseFrameOnce ==
    EveryStep(
       \A c \in ClientIDs :
          /\ WriterCloseFrame(c)
             => /\ closeFrames'[c] = closeFrames[c] + 1
                /\ wpc'[c] = "done"
                /\ ~crashed'
          /\ closeFrames'[c] # closeFrames[c]
             => /\ closed[c]
                /\ send[c] = <<>>
                /\ wpc[c] = "run"
                /\ wpc'[c] = "done")

C16_WriteFailureExits ==
    EveryStep(
       \A c \in ClientIDs :
          (WriterWrite(c, FALSE) \/ WriterPingFail(c))
          => /\ wpc'[c] = "done"
             /\ closeFrames' = closeFrames
             /\ ~crashed')

C16_NothingAfterExit ==
    EveryStep(
       \A c \in ClientIDs :
          wpc[c] = "done"
          => /\ wpc'[c] = "done"
             /\ closeFrames'[c] = closeFrames[c]
             /\ Len(send'[c]) >= Len(send[c]))

C16_AtMostOneCloseFrame == \A c \in ClientIDs : closeFrames[c] <= 1

\* C16: one close frame on a closed send channel, none on a failed write,
\* nothing after the writer has returned, and the process goes on.
C16_WriterExitProtocol ==
    /\ C16_AtMostOneCloseFrame
    /\ C16_CloseFrameOnce
    /\ C16_WriteFailureExits
    /\ C16_NothingAfterExit

\* one writer returned after its close frame, another after a failed write
C16_Witness ==
    \E c, d \in ClientIDs :
        /\ wpc[c] = "done"
        /\ closed[c]
        /\ closeFrames[c] = 1
        /\ wpc[d] = "done"
        /\ closeFrames[d] = 0
        /\ ~crashed

\* C17 as stated: after pongWait has passed without a pong the writer is the
\* pump that returns first, that is, the reader has not left its loop while
\* the writer is still running.
C17_WriterExitsFirst ==
    \A c \in ClientIDs :
        (conn[c] = "expired" /\ wpc[c] = "run") => ~ReaderExited(c)

\* C17, amended: the expired read deadline is the reader's: its ReadMessage
\* can only fail, no further frame is read, and the reader leaves its loop for
\* the unregister while the writer keeps running and the connection stays as
\* it is; the deadline alone never ends the writer.
C17_ReaderCannotRead ==
    \A c \in ClientIDs :
        (conn[c] = "expired" /\ rpc[c] = "read" /\ ~crashed)
        => /\ ~ReaderCanRead(c)
           /\ ENABLED ReadErr(c)
           /\ wpc[c] = "run"

C17_ReaderLeavesFirst ==
    EveryStep(
       \A c \in ClientIDs :
          (conn[c] = "expired" /\ rpc[c] = "read" /\ rpc'[c] # "read")
          => /\ rpc'[c] = "unregister"
             /\ wpc'[c] = "run"
             /\ conn'[c] = "expired")

\* C17, amended: the reader detects the keepalive timeout and leaves first.
C17_ReaderDetectsTimeout == C17_ReaderCannotRead /\ C17_ReaderLeavesFirst

\* the deadline expired, the reader has left and the writer is still running
C17_Witness ==
    \E c \in ClientIDs :
        /\ conn[c] = "expired"
        /\ rpc[c] = "unregister"
        /\ wpc[c] = "run"
        /\ ~closed[c]

\* C18: a request whose token is missing or fails validation creates no
\* client, registers nothing, starts no pump and leaves the Hub as it is; it
\* is answered with a 401.
C18_RejectedAllocatesNothing ==
    EveryStep(
       \A u \in Connecting, tok \in {"", "bad"}, upErr \in BOOLEAN :
          Handler(u, tok, upErr)
          => /\ UNCHANGED <<nextClient, userOf, conn, rpc, wpc, hubVars,
                            registered, pending>>
             /\ Len(responses') = Len(responses) + 1
             /\ responses'[Len(responses')] \in
                    {"Token required", "Invalid token"})

\* a request was turned down while a session is registered and running
C18_Witness ==
    /\ responses = <<"Invalid token">>
    /\ nextClient = 1
    /\ clients[userOf[1]] = 1
    /\ rpc[1] = "read"
    /\ wpc[1] = "run"
    /\ Len(registered) = 1

\* C19: when CreateMessage fails for a chat intent that passed the
\* participant check, no SendToUser call is issued and no row is added; the
\* reader stays in its loop, its session stays mapped and its connection and
\* writer are untouched.
C19_PersistenceFailureScoped ==
    EveryStep(
       \A c \in ClientIDs, conv \in ConvIDs :
          (/\ frames' = frames + 1
           /\ userOf[c] \in Participants(conv)
           /\ \E listErr \in BOOLEAN, other \in Users \cup {NoUser} :
                  ReadChat(c, conv, FALSE, TRUE, listErr, other))
          => /\ UNCHANGED <<messages, pending, broadcast, send, clients,
                            closed, conn, wpc, crashed>>
             /\ rpc'[c] = "read")

C19_Witness ==
    \E c \in ClientIDs :
        /\ [ev |-> "savefail", c |-> c] \in log
        /\ frames = 1
        /\ messages = <<>>
        /\ InFlight = {}
        /\ rpc[c] = "read"
        /\ clients[userOf[c]] = c
        /\ conn[c] = "open"
        /\ wpc[c] = "run"

\* the log line of a skipped frame of session c
Skipped(c) == {[ev |-> kind, c |-> c] : kind \in {"invalid", "unknown"}}

\* C20: a frame that does not parse or has an unknown type adds no row,
\* issues no SendToUser call and puts nothing on any send channel; the reader
\* stays in its loop with its session mapped, and a chat frame that follows
\* is handled as usual.
C20_SkipStep ==
    EveryStep(
       \A c \in ClientIDs, kind \in {"invalid", "unknown"} :
          (frames' = frames + 1 /\ ReadSkip(c, kind))
          => /\ UNCHANGED <<messages, pending, broadcast, send, clients,
                            closed, conn, wpc, crashed>>
             /\ rpc'[c] = "read")

C20_NextFrameHandled ==
    \A c \in ClientIDs :
        (/\ Skipped(c) \cap log # {}
         /\ rpc[c] = "read"
         /\ conn[c] = "open"
         /\ userOf[c] \in Participants("c1")
         /\ frames < MaxFrames
         /\ ~crashed)
        => \E other \in OtherChoices(userOf[c], "c1") :
               ENABLED ReadChat(c, "c1", FALSE, FALSE, FALSE, other)

\* C20: a skipped frame changes nothing and the next chat frame is handled.
C20_BadFramesSkipped == C20_NextFrameHandled /\ C20_SkipStep

\* the only session had a frame skipped and a chat frame handled: the
\* message is persisted and has reached the sender's own send channel
C20_Witness ==
    \E c \in ClientIDs :
        /\ Skipped(c) \cap log # {}
        /\ nextClient = 1
        /\ frames = 2
        /\ clients[userOf[c]] = c
        /\ rpc[c] = "read"
        /\ Len(messages) = 1
        /\ send[c] = <<ChatMessage(messages[1])>>

\* the Hub handles the register, the unregister of c, or takes a message
RegisterHandled(c) == rpc[c] = "register" /\ rpc'[c] # "register"

UnregisterHandled(c) == rpc[c] = "unregister" /\ rpc'[c] # "unregister"

\* the commands the Hub handles in this step
HandledNow ==
    {<<"register", c>> : c \in {d \in ClientIDs : RegisterHandled(d)}}
    \cup {<<"unregister", c>> : c \in {d \in ClientIDs : UnregisterHandled(d)}}
    \cup (IF HubTakes THEN {<<"dispatch", NoClient>>} ELSE {})

\* the map, the closed flags or the content a send channel gains change
HubStateChanges ==
    \/ clients' # clients
    \/ closed' # closed
    \/ \E c \in ClientIDs : Len(send'[c]) > Len(send[c])

\* C21: every step handles at most one command of the Hub, and handles it
\* in full: a register closes the old session and stores the new one, an
\* unregister removes and closes or does neither, a dispatch is taken and
\* enqueued or dropped; the state the Hub owns changes in no other step.
C21_OneCommandPerStep ==
    EveryStep(
       /\ Cardinality(HandledNow) <= 1
       /\ HubStateChanges => Cardinality(HandledNow) = 1
       /\ \A c \in ClientIDs :
             /\ RegisterHandled(c)
                => /\ clients' = [clients EXCEPT ![userOf[c]] = c]
                   /\ closed' = RegisterClose(userOf[c])
                   /\ send' = send
             /\ UnregisterHandled(c)
                => /\ \/ clients'[userOf[c]] = NoClient /\ closed'[c]
                      \/ clients' = clients /\ closed' = closed
                   /\ send' = send
       /\ HubTakes => clients' = clients /\ closed' = closed)

\* C21: the order in which the Hub handled the registers is a total order
\* the map agrees with: each entry is the session registered last.
C21_MapFollowsOrder ==
    \A u \in Users :
        /\ IsUserOnline(u) => RegisteredFor(u) # <<>>
        /\ \A i, j \in 1..Len(registered) :
               registered[i] = registered[j] => i = j

\* C21: Hub commands are applied one at a time, each in full.
C21_Serialized == C21_MapFollowsOrder /\ C21_OneCommandPerStep

\* a register that replaced a session, an unregister that removed one and a
\* dispatch that was enqueued have all been handled
C21_Witness ==
    \E a, b \in ClientIDs :
        /\ a # b
        /\ Len(registered) = 2
        /\ closed[a]
        /\ rpc[a] = "done"
        /\ clients[userOf[b]] = b
        /\ send[b] # <<>>

\* C22: the entry of a user changes only in a step in which the Hub handles
\* the register of a session of that user, which becomes the entry, or the
\* unregister of the session that is the entry, which removes it; asking
\* whether the user is online reads the entry only.
C22_AuthoritativeRecipient ==
    EveryStep(
       \A u \in Users :
          clients'[u] # clients[u]
          => \/ \E c \in ClientIDs :
                   /\ userOf[c] = u
                   /\ RegisterHandled(c)
                   /\ clients'[u] = c
             \/ \E c \in ClientIDs :
                   /\ clients[u] = c
                   /\ userOf[c] = u
                   /\ UnregisterHandled(c)
                   /\ ~IsUserOnline(u)')

\* B's session is the entry of B although A's sessions registered, were
\* replaced and unregistered, and messages were dispatched
C22_Witness ==
    \E a, b \in ClientIDs :
        /\ userOf[a] = "A"
        /\ userOf[b] = "B"
        /\ rpc[a] = "done"
        /\ clients["B"] = b
        /\ IsUserOnline("B")
        /\ ~IsUserOnline("A")
        /\ send[b] # <<>>

\* C23: a chat message that is persisted is dispatched to its sender with
\* the frame of the saved row, whether or not the other participants could
\* be looked up.
C23_SenderEcho ==
    [][Persisted =>
          LET saved == messages'[Len(messages')] IN
          \E c \in ClientIDs :
              /\ rpc[c] = "read"
              /\ userOf[c] = saved.sender
              /\ Dispatches(pending'[c], saved.sender, ChatMessage(saved)) = 1]_vars

\* C25: every session that is an entry of the map has an open send channel
\* and the process has not panicked; a send channel is closed only in the
\* step that removes or replaces the entry of its session.
C25_MappedIsOpen ==
    /\ ~crashed
    /\ \A u \in Users : IsUserOnline(u) => ~closed[clients[u]]

C25_ClosedWithEntry ==
    EveryStep(
       \A c \in ClientIDs :
          (closed'[c] /\ ~closed[c])
          => clients[userOf[c]] = c /\ clients'[userOf[c]] # c)

\* C25: the Hub never sends on a closed channel.
C25_NoSendOnClosed == C25_MappedIsOpen /\ C25_ClosedWithEntry

\* the Hub enqueued a frame for the entry of a user whose earlier session
\* is closed
C25_Witness ==
    \E a, b \in ClientIDs :
        /\ a # b
        /\ userOf[a] = userOf[b]
        /\ closed[a]
        /\ clients[userOf[b]] = b
        /\ ~closed[b]
        /\ send[b] # <<>>
        /\ ~crashed

\* the distinct participants of a group request, the creator included
GroupOf(req) == {req.user} \cup Range(req.ids)

QueuedFor(r) ==
    {broadcast[i].Data : i \in {j \in 1..Len(broadcast) :
                                  broadcast[j].RecipientID = r}}

UnissuedFor(r) ==
    UNION {{pending[c][i].Data : i \in {j \in 1..Len(pending[c]) :
                                          pending[c][j].RecipientID = r}}
           : c \in ClientIDs}

\* chat frames f and g of one conversation, f persisted before g
PersistedBefore(f, g) ==
    /\ f.type = "message"
    /\ g.type = "message"
    /\ f.conv = g.conv
    /\ f.id < g.id

\* C26: chat messages of one conversation reach a recipient in the order
\* they were persisted: a message is never in the send channel of the
\* recipient's session while a message persisted before it is still on its
\* way to the same recipient (in the Hub's queue or not yet issued).
C26_LiveOrderIsPersistedOrder ==
    \A r \in Users :
        IsUserOnline(r) =>
            \A k \in 1..Len(send[clients[r]]) :
                \A f \in QueuedFor(r) \cup UnissuedFor(r) :
                    ~PersistedBefore(f, send[clients[r]][k])

\* chat frames f and g of one sender whose only session issued f before g:
\* a reader issues every SendToUser call of a frame before it reads the next
IssuedBefore(f, g) ==
    /\ f.type = "message"
    /\ g.type = "message"
    /\ f.sender = g.sender
    /\ f.id < g.id
    /\ Cardinality({c \in ClientIDs : userOf[c] = f.sender}) = 1

C28_OwnDispatchBeforeUnregister ==
    [][\A c \in ClientIDs :
          (/\ UnregisterHandled(c)
           /\ clients[userOf[c]] = c
           /\ Len(RegisteredFor(userOf[c])) = 1)
          => \A i \in 1..Len(broadcast) :
                 ~(/\ broadcast[i].RecipientID = userOf[c]
                   /\ broadcast[i].Data.sender = userOf[c])]_vars

\* the sessions whose register the Hub has handled
Registered == {registered[i] : i \in 1..Len(registered)}

\* C29: the pumps of a session run, and its unregister is handled, only
\* after the Hub has handled its register; a session whose reader is done
\* is no entry of the map, however early it disconnected.
C29_PumpsAfterRegister ==
    \A c \in ClientIDs :
        /\ (rpc[c] \in {"read", "send", "unregister", "done"}
            \/ wpc[c] # "none") => c \in Registered
        /\ rpc[c] = "done" => clients[userOf[c]] # c

C29_UnregisterAfterRegister ==
    EveryStep(
       \A c \in ClientIDs : UnregisterHandled(c) => c \in Registered)

\* C29: register comes first for every session.
C29_RegisterFirst == C29_PumpsAfterRegister /\ C29_UnregisterAfterRegister

\* a session that disconnected before it read a frame left no entry
C29_Witness ==
    \E c \in ClientIDs :
        /\ frames = 0
        /\ registered = <<c>>
        /\ rpc[c] = "done"
        /\ ~IsUserOnline(userOf[c])
        /\ closed[c]

\* a command is waiting for the Hub: a session on the register or unregister
\* channel, or a dispatch in the Hub's queue
HubPending ==
    \/ broadcast # <<>>
    \/ \E c \in ClientIDs : rpc[c] \in {"register", "unregister"}

\* a command has been submitted and is not yet handled: waiting for the Hub,
\* or a SendToUser call that has not yet put its message on the queue
Submitted == HubPending \/ \E c \in ClientIDs : rpc[c] = "send"

\* whenever a command is waiting the Hub can take a step, and a SendToUser
\* call that cannot proceed waits for nothing but the Hub
C30_HubCanStep ==
    /\ HubPending => ENABLED HubStep
    /\ \A c \in ClientIDs :
           rpc[c] = "send" => ENABLED SendToUser(c) \/ ENABLED HubBroadcast

\* C30: the Hub always makes progress: in every state with a pending
\* register, unregister or dispatch the Hub can take a step, also when the
\* queue and every send channel are full, and under fair scheduling every
\* submitted command is eventually handled.
C30_HubProgress == []C30_HubCanStep /\ (Submitted ~> ~Submitted)

\* every session is mapped with a full send channel, the Hub's queue is full
\* and its head is for one of these sessions
C30_Witness ==
    /\ nextClient = MaxClients
    /\ \A c \in ClientIDs : clients[userOf[c]] = c /\ BufferFull(send[c])
    /\ Len(broadcast) = BroadcastCap
    /\ Recipient(Head(broadcast)) # NoClient
    /\ ENABLED HubStep

\* the lifecycle position of a session: 0 not created, 1 Connecting (created
\* by Handler, register not yet handled), 2 Active (the mapped session of
\* its user), 3 Closing (registered, no longer mapped), 4 Closed (both pumps
\* returned, connection closed)
Lifecycle(c) ==
    IF c > nextClient THEN 0
    ELSE IF c \notin Registered THEN 1
    ELSE IF clients[userOf[c]] = c THEN 2
    ELSE IF Closed(c) THEN 4
    ELSE 3

\* no session appears twice in the Hub's registration history
C31_RegisteredOnce ==
    \A i, j \in 1..Len(registered) : registered[i] = registered[j] => i = j

\* no step moves a session back in its lifecycle; in particular a registered
\* session that is not mapped is not mapped after the step
C31_NoStepBack ==
    EveryStep(
       \A c \in ClientIDs :
          /\ Lifecycle(c)' >= Lifecycle(c)
          /\ (c \in Registered /\ clients[userOf[c]] # c)
                 => clients'[userOf[c]] # c)

\* a closed send channel stays closed and gains no frame
C31_ClosedStaysClosed ==
    EveryStep(
       \A c \in ClientIDs :
          closed[c] => /\ closed'[c]
                       /\ Len(send'[c]) <= Len(send[c])
                       /\ ~crashed')

\* C31: the lifecycle of a session only moves forward (Connecting, Active,
\* Closing, Closed): a session is registered at most once, a session whose
\* map entry was removed or replaced is never mapped again, and a closed
\* send channel is never reopened or sent to.
C31_LifecycleForward ==
    /\ C31_RegisteredOnce
    /\ C31_NoStepBack
    /\ C31_ClosedStaysClosed

\* a session went through its whole lifecycle and a later session of the
\* same user is the mapped one
C31_Witness ==
    \E a, b \in ClientIDs :
        /\ a # b
        /\ userOf[a] = userOf[b]
        /\ Lifecycle(a) = 4
        /\ closed[a]
        /\ Lifecycle(b) = 2

\* the writer of c takes a frame off its send channel in this step
WriterTakes(c) == \E ok \in BOOLEAN : WriterWrite(c, ok)

\* frames leave a send channel only through its writer, oldest first and one
\* per step, and frames enter it only at its end
C32_OldestFirst ==
    EveryStep(
       \A c \in ClientIDs :
          send'[c] # send[c] =>
              \/ /\ WriterTakes(c)
                 /\ send'[c] = Tail(send[c])
              \/ /\ HubBroadcast
                 /\ SubSeq(send'[c], 1, Len(send[c])) = send[c]
                 /\ Len(send'[c]) = Len(send[c]) + 1)

\* the close frame is written only once the closed send channel is drained,
\* and it is the last thing the writer does
C32_CloseFrameLast ==
    EveryStep(
       \A c \in ClientIDs :
          closeFrames'[c] # closeFrames[c] =>
              /\ closed[c]
              /\ send[c] = <<>>
              /\ wpc'[c] = "done")

\* no frame stays queued behind a close frame, and a writer that returned
\* takes nothing more
C32_NothingAfterClose ==
    /\ \A c \in ClientIDs : closeFrames[c] > 0 => send[c] = <<>> /\ closed[c]
    /\ \A c \in ClientIDs : wpc[c] = "done" => ~ENABLED WriterTakes(c)

\* C32: the writer writes the frames of its send channel in the order they
\* were enqueued, each at most once, and when the channel is closed with
\* frames still queued it writes them before the close frame.
C32_WriterDrainsInOrder ==
    /\ C32_OldestFirst
    /\ C32_CloseFrameLast
    /\ C32_NothingAfterClose

\* the closed send channel of A's session holds the newer of two frames and
\* its writer is still running: what was ahead of that frame has left the
\* channel, and the close frame has not been written
C32_Witness ==
    /\ closed[1]
    /\ wpc[1] = "run"
    /\ closeFrames[1] = 0
    /\ Len(messages) = 2
    /\ send[1] = <<ChatMessage(messages[2])>>
    /\ frames = 2
    /\ log = {}

\* the session the Hub registered last for user u (NoClient: none so far)
LastRegistered(u) ==
    IF RegisteredFor(u) = <<>> THEN NoClient
    ELSE RegisteredFor(u)[Len(RegisteredFor(u))]

\* C33: the recipient of a dispatch is looked up in the step in which the
\* Hub takes it from its queue: the frame goes to the send channel of the
\* session mapped in that step, which is the one registered last for the
\* user, and never to another session of the user, superseded or
\* unregistered; with no session mapped the event is discarded.
C33_ResolvedWhenProcessed ==
    EveryStep(
       HubTakes =>
          LET m == Head(broadcast)
              cur == clients[m.RecipientID]
          IN /\ broadcast' = Tail(broadcast)
             /\ ~crashed'
             /\ \A a \in ClientIDs :
                    (userOf[a] = m.RecipientID /\ a # cur)
                        => send'[a] = send[a]
             /\ cur # NoClient
                    => /\ cur = LastRegistered(m.RecipientID)
                       /\ ~closed[cur]
                       /\ ~BufferFull(send[cur])
                              => send'[cur] = Append(send[cur], m.Data)
             /\ cur = NoClient => send' = send)

\* an event for A waits in the Hub's queue, submitted while A's first
\* session is the mapped one; A's second session waits on the register
\* channel and will be the mapped one when the Hub takes the event
C33_Witness ==
    \E a, b \in ClientIDs :
        /\ a # b
        /\ userOf[a] = "A"
        /\ userOf[b] = "A"
        /\ clients["A"] = a
        /\ rpc[b] = "register"
        /\ broadcast # <<>>
        /\ Head(broadcast).RecipientID = "A"
        /\ ENABLED HubRegister(b)

\* C34: the step in which the Hub handles a dispatch leaves the map, the
\* closed flags and the send channel of every session other than the one
\* mapped for the recipient as they are; the mapped session's send channel
\* stays as it is or gains the dispatched frame at its end; nothing is
\* written to a connection, persisted or registered in the step.
C34_DispatchTouchesOnlyTarget ==
    EveryStep(
       HubTakes =>
          LET m == Head(broadcast)
              cur == clients[m.RecipientID]
          IN /\ clients' = clients
             /\ closed' = closed
             /\ closeCount' = closeCount
             /\ \A c \in ClientIDs : c # cur => send'[c] = send[c]
             /\ cur # NoClient
                    => send'[cur] \in {send[cur], Append(send[cur], m.Data)}
             /\ UNCHANGED <<conn, rpc, wpc, pending, messages, registered,
                            responses, closeFrames, nextClient, userOf>>)

\* A and B are both mapped; the Hub has handled A's dispatch to B, which is
\* in B's send channel, while A's own copy is still in the queue and A's
\* send channel is empty
C34_Witness ==
    \E a, b \in ClientIDs :
        /\ clients["A"] = a
        /\ clients["B"] = b
        /\ Len(messages) = 1
        /\ messages[1].sender = "A"
        /\ send[b] = <<ChatMessage(messages[1])>>
        /\ send[a] = <<>>
        /\ broadcast = <<OutgoingMessage("A", ChatMessage(messages[1]))>>

\* C35: no send channel ever holds more than its capacity and the Hub's
\* queue never holds more than its capacity, whatever the readers dispatch
\* and however long a writer is stalled: at a full queue no SendToUser call
\* gets through, at a full send channel the Hub's step adds nothing.
C35_QueuesBounded ==
    /\ \A c \in ClientIDs : Len(send[c]) <= SendCap
    /\ Len(broadcast) <= BroadcastCap
    /\ Len(broadcast) = BroadcastCap
           => \A c \in ClientIDs : ~ENABLED SendToUser(c)

\* the Hub's queue is full with a reader waiting to dispatch into it, and a
\* session whose writer has not run has a full send channel
C35_Witness ==
    /\ Len(broadcast) = BroadcastCap
    /\ \E c \in ClientIDs : rpc[c] = "send" /\ pending[c] # <<>>
    /\ \E d \in 1..nextClient :
           /\ clients[userOf[d]] = d
           /\ wpc[d] = "run"
           /\ Len(send[d]) = SendCap

\* C36: IsUserOnline(u) is true exactly while the session registered last
\* for u has not had its unregister handled: it is true from the first
\* register on, stays true when a session of u is replaced or a replaced
\* session unregisters, and is false once the unregister of the mapped
\* session has been handled.
C36_OnlineWhileMapped ==
    \A u \in Users :
        IsUserOnline(u) <=> /\ LastRegistered(u) # NoClient
                            /\ rpc[LastRegistered(u)] # "done"

\* the answer changes only in the Hub's register and unregister cases: a
\* register makes it true, the unregister of the mapped session makes it
\* false, the unregister of a replaced session leaves it as it is
C36_OnlineFollowsHub ==
    EveryStep(
       \A c \in ClientIDs :
          /\ RegisterHandled(c) => IsUserOnline(userOf[c])'
          /\ UnregisterHandled(c)
                 => IF clients[userOf[c]] = c
                    THEN ~IsUserOnline(userOf[c])'
                    ELSE IsUserOnline(userOf[c])' = IsUserOnline(userOf[c])
          /\ \A u \in Users :
                 IsUserOnline(u)' # IsUserOnline(u) =>
                     \E d \in ClientIDs :
                         /\ userOf[d] = u
                         /\ RegisterHandled(d) \/ UnregisterHandled(d))

\* C36: the online query agrees with the Hub's map: true exactly when the
\* user has an entry, false once the mapped session's unregister has been
\* handled, true across a replacement.
C36_OnlineQueryMatchesMap == C36_OnlineWhileMapped /\ C36_OnlineFollowsHub

\* A is online with its second session although its first session was
\* replaced and the unregister of the first has been handled
C36_Witness ==
    \E a, b \in ClientIDs :
        /\ a # b
        /\ userOf[a] = "A"
        /\ userOf[b] = "A"
        /\ closed[a]
        /\ rpc[a] = "done"
        /\ LastRegistered("A") = b
        /\ IsUserOnline("A")
        /\ [ev |-> "skip", c |-> a] \in log
====
